---- MODULE Spec2Model ----
(***************************************************************************)
(* The multi-scenario replay buffer of safebench/gym_carla/replay_buffer.py *)
(* (classes ReplayBuffer and ReplayBuffer_Perception) as a state machine.   *)
(* The state is the objects' fields; each method is one action.  A method   *)
(* that raises leaves its object as the statements executed before the      *)
(* raise left it.                                                           *)
(*                                                                          *)
(* Python lists are sequences; a Python index k is position k+1 here.       *)
(* Scenario ids and bucket indices keep their Python values 0..n-1.         *)
(***************************************************************************)
EXTENDS Integers, Sequences, FiniteSets, TLC

\* ---- bounds of the model -------------------------------------------------
MaxScenario  == 2   \* num_scenario is drawn from 1..MaxScenario
MaxCapacity  == 2   \* buffer_capacity is drawn from 1..MaxCapacity
MaxBatch     == 2   \* longest tags list handed to store
MaxStored    == 2   \* batch entries handed to store over a run
MaxInit      == 2   \* store_init calls over a run
MaxRows      == 2   \* rows of one init_action array
MaxEpisodes  == 3   \* finish_one_episode is called while fewer returns are held
MaxBatchSize == 2   \* largest batch_size asked of sample / sample_init

VARIABLES
    self,    \* the ReplayBuffer object: a record of its fields, named as in __init__
    perception, \* the ReplayBuffer_Perception object, likewise
    clock,   \* number of batch entries the orchestration has produced (names the sentinels)
    call,    \* the latest call: method and arguments
    ret      \* its outcome: raised or returned, the value returned, the indices drawn

vars == <<self, perception, clock, call, ret>>

\* ---- Python list helpers -------------------------------------------------
Max2(a, b) == IF a >= b THEN a ELSE b
Min2(a, b) == IF a <= b THEN a ELSE b

\* s[start:] for start >= 0
SliceFrom(s, start) == SubSeq(s, Min2(start, Len(s)) + 1, Len(s))

\* s[lo:hi] for 0 <= lo, 0 <= hi
Slice(s, lo, hi) == SubSeq(s, lo + 1, Min2(hi, Len(s)))

RECURSIVE SumSeq(_)
SumSeq(s) == IF s = <<>> THEN 0 ELSE Head(s) + SumSeq(Tail(s))

\* np.where(s)[0]: the ascending Python indices at which s is true
WhereTrue(s) ==
    LET idx == [i \in 1..Len(s) |-> i - 1]
        T(k) == s[k + 1]
    IN  SelectSeq(idx, T)

\* ---- the fixed transition schema ----------------------------------------
\* data_list[f] is appended to the bucket list Fields[f], in this order (lines 70-75)
Fields == <<"buffer_ego_actions", "buffer_scenario_actions", "buffer_obs",
            "buffer_next_obs", "buffer_rewards", "buffer_dones">>

Keys == {"cost"}

\* reset_buffer (lines 34-41): one empty list, or one empty dict, per scenario
reset_buffer(n) == [s \in 0..(n - 1) |-> <<>>]

\* a raised exception leaves the fields as they are
Raise(st) == [st EXCEPT !.raised = TRUE]

\* ---- store (lines 58-83) -------------------------------------------------
\* lines 78-83: the keys of one tags entry; s_i is the batch position (Python index)
RECURSIVE StoreKeys(_, _, _, _)
StoreKeys(st, entry, s_i, keys) ==
    IF keys = {} THEN st
    ELSE LET key  == CHOOSE k \in keys : TRUE
             rest == keys \ {key}
         IN  IF key = "scenario_id" THEN StoreKeys(st, entry, s_i, rest)
             ELSE IF s_i \notin DOMAIN st.buffer_additional_dict THEN Raise(st)  \* IndexError
             ELSE LET d   == st.buffer_additional_dict[s_i]
                      col == IF key \in DOMAIN d THEN d[key] ELSE <<>>
                      d2  == [k \in (DOMAIN d) \cup {key} |->
                                 IF k = key THEN Append(col, entry[key]) ELSE d[k]]
                  IN  StoreKeys([st EXCEPT !.buffer_additional_dict[s_i] = d2],
                                entry, s_i, rest)

\* the six appends, made to the bucket of the batch position instead of the tag
RECURSIVE StoreFields_ByPosition(_, _, _, _, _)
StoreFields_ByPosition(st, data_list, sid, s_i, f) ==
    IF f > Len(Fields) THEN st
    ELSE IF s_i \notin DOMAIN st[Fields[f]] THEN Raise(st)
    ELSE IF s_i + 1 > Len(data_list[f]) THEN Raise(st)
    ELSE StoreFields_ByPosition(
             [st EXCEPT ![Fields[f]][s_i] = Append(@, data_list[f][s_i + 1])],
             data_list, sid, s_i, f + 1)

\* the six appends into buckets that hold at most buffer_capacity entries, the
\* oldest entry making room for the newest
RECURSIVE StoreFields_Evicting(_, _, _, _, _)
StoreFields_Evicting(st, data_list, sid, s_i, f) ==
    IF f > Len(Fields) THEN st
    ELSE IF sid \notin DOMAIN st[Fields[f]] THEN Raise(st)
    ELSE IF s_i + 1 > Len(data_list[f]) THEN Raise(st)
    ELSE LET grown == Append(st[Fields[f]][sid], data_list[f][s_i + 1])
             kept  == IF Len(grown) > st.buffer_capacity THEN Tail(grown) ELSE grown
         IN  StoreFields_Evicting([st EXCEPT ![Fields[f]][sid] = kept],
                                  data_list, sid, s_i, f + 1)

\* lines 70-75: the six appends of batch position s_i, field f onwards
RECURSIVE StoreFields(_, _, _, _, _)
StoreFields(st, data_list, sid, s_i, f) ==
    IF f > Len(Fields) THEN st
    ELSE IF sid \notin DOMAIN st[Fields[f]] THEN Raise(st)        \* IndexError
    ELSE IF s_i + 1 > Len(data_list[f]) THEN Raise(st)            \* IndexError
    ELSE StoreFields([st EXCEPT ![Fields[f]][sid] = Append(@, data_list[f][s_i + 1])],
                     data_list, sid, s_i, f + 1)

\* lines 68-83: the loop over the tags list, from position s_i
RECURSIVE StoreLoop(_, _, _, _)
StoreLoop(st, data_list, additional_dict, s_i) ==
    IF s_i >= Len(additional_dict) THEN st
    ELSE LET entry == additional_dict[s_i + 1]
             sid   == entry["scenario_id"]
             s1    == StoreFields(st, data_list, sid, s_i, 1)
             s2    == IF s1.raised THEN s1
                      ELSE StoreKeys(s1, entry, s_i, DOMAIN entry)
         IN  IF s2.raised THEN s2
             ELSE StoreLoop(s2, data_list, additional_dict, s_i + 1)

\* the object, with the flag that tells whether the running method has raised
Running(obj) == [k \in (DOMAIN obj) \cup {"raised"} |->
                    IF k = "raised" THEN FALSE ELSE obj[k]]
Object(st)   == [k \in (DOMAIN st) \ {"raised"} |-> st[k]]

\* the whole method: line 65, then the loop
store(obj, data_list, additional_dict) ==
    StoreLoop([Running(obj) EXCEPT !.buffer_len = @ + Len(data_list[5])],
              data_list, additional_dict, 0)

\* ---- the batches the orchestration hands to store ------------------------
\* Entry number id of a run carries sentinel values naming it.
EgoVal(id)  == <<"ego", id>>
ScnVal(id)  == <<"scn", id>>
ObsVal(id)  == <<"obs", id>>
NObsVal(id) == <<"nobs", id>>
RewVal(id)  == id
CostVal(id) == <<"cost", id>>

\* how the lengths of the seven lists relate: all equal ("ok"), field f one
\* entry short of the others (f in 1..6), or the tags list one entry short (7)
Shapes == {0} \cup (1..7)

FieldVal(f, id, done) ==
    CASE f = 1 -> EgoVal(id)
      [] f = 2 -> ScnVal(id)
      [] f = 3 -> ObsVal(id)
      [] f = 4 -> NObsVal(id)
      [] f = 5 -> RewVal(id)
      [] f = 6 -> done

\* n entries numbered from first+1; dones[i] and sids[i] are chosen per entry,
\* and every entry of one tags list carries the same keys (withCost)
DataList(first, n, dones, shape) ==
    [f \in 1..6 |->
        [i \in 1..(IF shape = f THEN n - 1 ELSE n) |-> FieldVal(f, first + i, dones[i])]]

TagEntry(id, sid, withCost) ==
    IF withCost THEN ("scenario_id" :> sid) @@ ("cost" :> CostVal(id))
    ELSE ("scenario_id" :> sid)

Tags(first, n, sids, withCost, shape) ==
    [i \in 1..(IF shape = 7 THEN n - 1 ELSE n) |-> TagEntry(first + i, sids[i], withCost)]

\* ---- finish_one_episode (lines 50-56) ------------------------------------
\* the loop, summing from the start of the bucket whatever dones came before
RECURSIVE FinishLoop_FromStart(_, _)
FinishLoop_FromStart(st, s_i) ==
    IF s_i >= st.num_scenario THEN st
    ELSE LET dones == WhereTrue(st.buffer_dones[s_i])
             n     == Len(dones)
         IN  IF n = 0 THEN Raise(st)
             ELSE LET total == SumSeq(Slice(st.buffer_rewards[s_i], 0, dones[n] + 1))
                  IN  FinishLoop_FromStart(
                          [st EXCEPT !.buffer_episode_reward = Append(@, total)], s_i + 1)

\* the loop, passing over a scenario that has no done yet
RECURSIVE FinishLoop_SkippingOpen(_, _)
FinishLoop_SkippingOpen(st, s_i) ==
    IF s_i >= st.num_scenario THEN st
    ELSE LET dones == WhereTrue(st.buffer_dones[s_i])
             n     == Len(dones)
         IN  IF n = 0 THEN FinishLoop_SkippingOpen(st, s_i + 1)
             ELSE LET start_ == IF n > 1 THEN dones[n - 1] ELSE -1
                      end_   == dones[n]
                      total  == SumSeq(Slice(st.buffer_rewards[s_i], start_ + 1, end_ + 1))
                  IN  FinishLoop_SkippingOpen(
                          [st EXCEPT !.buffer_episode_reward = Append(@, total)], s_i + 1)

\* the loop from scenario s_i on
RECURSIVE FinishLoop(_, _)
FinishLoop(st, s_i) ==
    IF s_i >= st.num_scenario THEN st
    ELSE LET dones == WhereTrue(st.buffer_dones[s_i])
             n     == Len(dones)
         IN  IF n = 0 THEN Raise(st)                               \* dones[-1]: IndexError
             ELSE LET start_ == IF n > 1 THEN dones[n - 1] ELSE -1
                      end_   == dones[n]
                      total  == SumSeq(Slice(st.buffer_rewards[s_i], start_ + 1, end_ + 1))
                  IN  FinishLoop([st EXCEPT !.buffer_episode_reward = Append(@, total)],
                                 s_i + 1)

finish_one_episode(obj) == FinishLoop(Running(obj), 0)

\* ---- sample (lines 121-158) ----------------------------------------------
\* the share of the capacity rounded up to one entry
samples_per_trajectory_AtLeastOne == Max2(1, self.buffer_capacity \div self.num_scenario)

\* line 131
samples_per_trajectory == self.buffer_capacity \div self.num_scenario

\* the window start with the whole capacity given to every scenario
start_idx_WholeCapacity(s_i) == Max2(0, Len(self.buffer_rewards[s_i]) - self.buffer_capacity)

\* line 134-135
start_idx(s_i) == Max2(0, Len(self.buffer_rewards[s_i]) - samples_per_trajectory)

\* lines 132-143: one prepared list, from scenario s_i on
RECURSIVE Prepared(_, _)
Prepared(bucket, s_i) ==
    IF s_i >= self.num_scenario THEN <<>>
    ELSE SliceFrom(bucket[s_i], start_idx(s_i)) \o Prepared(bucket, s_i + 1)

prepared_ego_actions      == Prepared(self.buffer_ego_actions, 0)
prepared_scenario_actions == Prepared(self.buffer_scenario_actions, 0)
prepared_obs              == Prepared(self.buffer_obs, 0)
prepared_next_obs         == Prepared(self.buffer_next_obs, 0)
prepared_rewards          == Prepared(self.buffer_rewards, 0)
prepared_dones            == Prepared(self.buffer_dones, 0)

\* np.stack(list)[sample_index]: defined when the list is not empty and every
\* index is inside it
CanTake(list, sample_index) ==
    /\ list # <<>>
    /\ \A r \in 1..Len(sample_index) : sample_index[r] < Len(list)

Take(list, sample_index) == [r \in 1..Len(sample_index) |-> list[sample_index[r] + 1]]

\* lines 147-150
ActionList(m) ==
    IF m = "train_agent" THEN prepared_ego_actions ELSE prepared_scenario_actions

\* lines 147-157 for the drawn sample_index, in mode m
SampleRaises(m, sample_index) ==
    \/ ~CanTake(ActionList(m), sample_index)
    \/ ~CanTake(prepared_obs, sample_index)
    \/ ~CanTake(prepared_next_obs, sample_index)
    \/ ~CanTake(prepared_rewards, sample_index)
    \/ ~CanTake(prepared_dones, sample_index)

SampleBatch(m, sample_index) ==
    [action  |-> Take(ActionList(m), sample_index),
     state   |-> Take(prepared_obs, sample_index),
     n_state |-> Take(prepared_next_obs, sample_index),
     reward  |-> Take(prepared_rewards, sample_index),
     done    |-> Take(prepared_dones, sample_index)]

\* np.random.randint(0, high, size): every array of size draws below high
Randint(high, size) == [1..size -> 0..(high - 1)]

\* ---- store_init / sample_init (lines 85-119) -----------------------------
\* lines 93-97
StoreInitKeys(d, additional_dict) ==
    [k \in (DOMAIN d) \cup (DOMAIN additional_dict) |->
        IF k \in DOMAIN additional_dict
        THEN Append(IF k \in DOMAIN d THEN d[k] ELSE <<>>, additional_dict[k])
        ELSE d[k]]

store_init(obj, data_list, additional_dict) ==
    [obj EXCEPT !.buffer_static_obs = Append(@, data_list[1]),
                !.buffer_init_action = Append(@, data_list[2]),
                !.init_buffer_len = @ + Len(data_list[2]),
                !.buffer_init_additional_dict = StoreInitKeys(@, additional_dict)]

\* np.concatenate(list, axis=0) / torch.cat(list): the rows of the arrays, in order
RECURSIVE Concatenate(_)
Concatenate(list) == IF list = <<>> THEN <<>> ELSE Head(list) \o Concatenate(Tail(list))

init_start_idx == Max2(0, Len(self.buffer_init_action) - self.buffer_capacity)

prepared_init_action    == SliceFrom(self.buffer_init_action, init_start_idx)
prepared_episode_reward == SliceFrom(self.buffer_episode_reward, init_start_idx)

InitExtraList(key) == SliceFrom(self.buffer_init_additional_dict[key], init_start_idx)

\* lines 109-118 for the drawn sample_index
SampleInitRaises(sample_index) ==
    \/ ~CanTake(Concatenate(prepared_init_action), sample_index)
    \/ \E r \in 1..Len(sample_index) : sample_index[r] >= Len(prepared_episode_reward)
    \/ \E key \in DOMAIN self.buffer_init_additional_dict :
          ~CanTake(Concatenate(InitExtraList(key)), sample_index)

SampleInitBatch(sample_index) ==
    [key \in {"init_action", "episode_reward"} \cup DOMAIN self.buffer_init_additional_dict |->
        CASE key = "init_action"    -> Take(Concatenate(prepared_init_action), sample_index)
          [] key = "episode_reward" -> Take(prepared_episode_reward, sample_index)
          [] OTHER                  -> Take(Concatenate(InitExtraList(key)), sample_index)]

\* the arrays the scenario policy hands to store_init for record number j
StaticObs(j)      == <<"sobs", j>>
InitAction(j, n)  == [r \in 1..n |-> <<"ia", j, r>>]
InitExtra(j, has) == IF has THEN ("z" :> << <<"z", j>> >>) ELSE <<>>

\* ---- ReplayBuffer_Perception.store (lines 193-208) -----------------------
\* the five appends of one batch position, in the order of lines 204-208: the
\* bucket, the position in data_list of the list read, and the key read
PerceptionAppends ==
    << <<"buffer_predictions",      1, "od_result">>,
       <<"buffer_scenario_actions", 2, "attack">>,
       <<"buffer_obs",              3, "img">>,
       <<"buffer_bbox_label",       4, "bbox_label">>,
       <<"buffer_loss",             4, "iou_loss">> >>

\* the five appends, made to the bucket of the batch position instead of the tag
RECURSIVE Perception_append_ByPosition(_, _, _, _, _)
Perception_append_ByPosition(st, data_list, sid, s_i, k) ==
    IF k > Len(PerceptionAppends) THEN st
    ELSE LET bucket == PerceptionAppends[k][1]
             list   == data_list[PerceptionAppends[k][2]]
             key    == PerceptionAppends[k][3]
         IN  IF s_i + 1 > Len(list) THEN Raise(st)
             ELSE IF key \notin DOMAIN list[s_i + 1] THEN Raise(st)
             ELSE IF s_i \notin DOMAIN st[bucket] THEN Raise(st)
             ELSE Perception_append_ByPosition(
                      [st EXCEPT ![bucket][s_i] = Append(@, list[s_i + 1][key])],
                      data_list, sid, s_i, k + 1)

\* lines 204-208 for batch position s_i, append k onwards
RECURSIVE Perception_append(_, _, _, _, _)
Perception_append(st, data_list, sid, s_i, k) ==
    IF k > Len(PerceptionAppends) THEN st
    ELSE LET bucket == PerceptionAppends[k][1]
             list   == data_list[PerceptionAppends[k][2]]
             key    == PerceptionAppends[k][3]
         IN  IF s_i + 1 > Len(list) THEN Raise(st)                   \* IndexError
             ELSE IF key \notin DOMAIN list[s_i + 1] THEN Raise(st)  \* KeyError
             ELSE IF sid \notin DOMAIN st[bucket] THEN Raise(st)     \* IndexError
             ELSE Perception_append(
                      [st EXCEPT ![bucket][sid] = Append(@, list[s_i + 1][key])],
                      data_list, sid, s_i, k + 1)

\* lines 202-208: the loop over infos, from position s_i
RECURSIVE Perception_loop(_, _, _)
Perception_loop(st, data_list, s_i) ==
    IF s_i >= Len(data_list[4]) THEN st
    ELSE LET sid == data_list[4][s_i + 1]["scenario_id"]
             s1  == Perception_append(st, data_list, sid, s_i, 1)
         IN  IF s1.raised THEN s1
             ELSE Perception_loop(s1, data_list, s_i + 1)

\* the method without its assert: too few lists fail at the read of infos, too
\* many go unnoticed
Perception_store_Unchecked(obj, data_list) ==
    IF Len(data_list) < 4 THEN Raise(Running(obj))
    ELSE Perception_loop([Running(obj) EXCEPT !.buffer_len = @ + Len(data_list[4])],
                         data_list, 0)

\* the whole method: the assert of line 194, line 199, then the loop
Perception_store(obj, data_list) ==
    IF Len(data_list) # 4 THEN Raise(Running(obj))                  \* AssertionError
    ELSE Perception_loop([Running(obj) EXCEPT !.buffer_len = @ + Len(data_list[4])],
                         data_list, 0)

\* the lists the orchestration hands to it: entry number id carries sentinels
\* naming it; list f is one entry short when shape = f (0: none is)
PerceptionShapes == 0..4

Arities == 3..5

PerceptionEntry(f, id, sid) ==
    CASE f = 1 -> [od_result |-> <<"od", id>>]
      [] f = 2 -> [attack |-> <<"attack", id>>]
      [] f = 3 -> [img |-> <<"img", id>>]
      [] f = 4 -> [scenario_id |-> sid, bbox_label |-> <<"bbox", id>>, iou_loss |-> id]
      [] OTHER -> [extra |-> id]

PerceptionDataList(first, n, sids, shape, arity) ==
    [f \in 1..arity |->
        [i \in 1..(IF shape = f THEN n - 1 ELSE n) |-> PerceptionEntry(f, first + i, sids[i])]]

\* ---- the state machine ---------------------------------------------------
Modes == {"train_agent", "train_scenario"}

None == "None"

\* __init__ (lines 22-32), reset_buffer (34-41), reset_init_buffer (43-48)
New(num_scenario, m, buffer_capacity) ==
    [mode                        |-> m,
     buffer_capacity             |-> buffer_capacity,
     num_scenario                |-> num_scenario,
     buffer_len                  |-> 0,
     buffer_ego_actions          |-> reset_buffer(num_scenario),
     buffer_scenario_actions     |-> reset_buffer(num_scenario),
     buffer_obs                  |-> reset_buffer(num_scenario),
     buffer_next_obs             |-> reset_buffer(num_scenario),
     buffer_rewards              |-> reset_buffer(num_scenario),
     buffer_dones                |-> reset_buffer(num_scenario),
     buffer_additional_dict      |-> reset_buffer(num_scenario),
     buffer_static_obs           |-> <<>>,
     buffer_init_action          |-> <<>>,
     buffer_episode_reward       |-> <<>>,
     buffer_init_additional_dict |-> <<>>,
     init_buffer_len             |-> 0]

\* ReplayBuffer_Perception.__init__ (lines 167-178)
NewPerception(num_scenario, m, buffer_capacity) ==
    [mode                    |-> m,
     buffer_capacity         |-> buffer_capacity,
     num_scenario            |-> num_scenario,
     buffer_len              |-> 0,
     buffer_bbox_label       |-> reset_buffer(num_scenario),
     buffer_predictions      |-> reset_buffer(num_scenario),
     buffer_scenario_actions |-> reset_buffer(num_scenario),
     buffer_obs              |-> reset_buffer(num_scenario),
     buffer_loss             |-> reset_buffer(num_scenario)]

\* both buffers are constructed with the same arguments
Init ==
    /\ \E n \in 1..MaxScenario, m \in Modes, c \in 1..MaxCapacity :
           /\ self = New(n, m, c)
           /\ perception = NewPerception(n, m, c)
    /\ clock = 0
    /\ call = [op |-> "__init__"]
    /\ ret = [raised |-> FALSE, value |-> None]

\* store, on a batch of the given shapes
StoreCall(shapes) ==
    \E n \in 1..MaxBatch, shape \in shapes, withCost \in BOOLEAN :
    \E dones \in [1..n -> BOOLEAN], sids \in [1..n -> 0..(self.num_scenario - 1)] :
        LET data_list       == DataList(clock, n, dones, shape)
            additional_dict == Tags(clock, n, sids, withCost, shape)
            st              == store(self, data_list, additional_dict)
        IN  /\ clock + n <= MaxStored
            /\ clock' = clock + n
            /\ self' = Object(st)
            /\ call' = [op |-> "store", data_list |-> data_list,
                        additional_dict |-> additional_dict]
            /\ ret' = [raised |-> st.raised, value |-> None]
            /\ UNCHANGED perception

\* any batch, its lists aligned or not
Store == StoreCall(Shapes)

\* a batch whose seven lists have one length
StoreAligned == StoreCall({0})

FinishOneEpisode ==
    /\ Len(self.buffer_episode_reward) < MaxEpisodes
    /\ LET st == finish_one_episode(self)
       IN  /\ self' = Object(st)
           /\ ret' = [raised |-> st.raised, value |-> None]
    /\ call' = [op |-> "finish_one_episode"]
    /\ UNCHANGED <<clock, perception>>

StoreInit ==
    \E n \in 1..MaxRows, has \in BOOLEAN :
        LET j               == Len(self.buffer_init_action) + 1
            data_list       == <<StaticObs(j), InitAction(j, n)>>
            additional_dict == InitExtra(j, has)
        IN  /\ j <= MaxInit
            /\ self' = store_init(self, data_list, additional_dict)
            /\ call' = [op |-> "store_init", data_list |-> data_list,
                        additional_dict |-> additional_dict]
            /\ ret' = [raised |-> FALSE, value |-> None]
            /\ UNCHANGED <<clock, perception>>

\* sample, dropping from every bucket what lies before its window
Sample_Evicting ==
    \E batch_size \in 1..MaxBatchSize :
        /\ call' = [op |-> "sample", batch_size |-> batch_size]
        /\ IF Len(prepared_rewards) = 0
           THEN ret' = [raised |-> TRUE, value |-> None]
           ELSE \E sample_index \in Randint(Len(prepared_rewards), batch_size) :
                   ret' = IF SampleRaises(self.mode, sample_index)
                          THEN [raised |-> TRUE, value |-> None,
                                sample_index |-> sample_index]
                          ELSE [raised |-> FALSE,
                                value |-> SampleBatch(self.mode, sample_index),
                                sample_index |-> sample_index]
        /\ self' = [k \in DOMAIN self |->
                       IF \E f \in 1..Len(Fields) : Fields[f] = k
                       THEN [s \in DOMAIN self[k] |-> SliceFrom(self[k][s], start_idx(s))]
                       ELSE self[k]]
        /\ UNCHANGED <<clock, perception>>

Sample ==
    \E batch_size \in 1..MaxBatchSize :
        /\ call' = [op |-> "sample", batch_size |-> batch_size]
        /\ IF Len(prepared_rewards) = 0
           THEN ret' = [raised |-> TRUE, value |-> None]          \* randint: ValueError
           ELSE \E sample_index \in Randint(Len(prepared_rewards), batch_size) :
                   ret' = IF SampleRaises(self.mode, sample_index)
                          THEN [raised |-> TRUE, value |-> None,
                                sample_index |-> sample_index]
                          ELSE [raised |-> FALSE,
                                value |-> SampleBatch(self.mode, sample_index),
                                sample_index |-> sample_index]
        /\ UNCHANGED <<self, clock, perception>>

SampleInit ==
    \E batch_size \in 1..MaxBatchSize :
        /\ call' = [op |-> "sample_init", batch_size |-> batch_size]
        /\ IF Len(prepared_init_action) = 0
           THEN ret' = [raised |-> TRUE, value |-> None]          \* randint: ValueError
           ELSE \E sample_index \in Randint(Len(prepared_init_action), batch_size) :
                   ret' = IF SampleInitRaises(sample_index)
                          THEN [raised |-> TRUE, value |-> None,
                                sample_index |-> sample_index]
                          ELSE [raised |-> FALSE, value |-> SampleInitBatch(sample_index),
                                sample_index |-> sample_index]
        /\ UNCHANGED <<self, clock, perception>>

PerceptionStore ==
    \E n \in 1..MaxBatch, shape \in PerceptionShapes, arity \in Arities :
    \E sids \in [1..n -> 0..(perception.num_scenario - 1)] :
        LET data_list == PerceptionDataList(clock, n, sids, shape, arity)
            st        == Perception_store(perception, data_list)
        IN  /\ clock + n <= MaxStored
            /\ clock' = clock + n
            /\ perception' = Object(st)
            /\ call' = [op |-> "Perception.store", data_list |-> data_list]
            /\ ret' = [raised |-> st.raised, value |-> None]
            /\ UNCHANGED self

\* the trajectory side: step storage, episode aggregation, trajectory sampling
NextStep ==
    \/ Store
    \/ FinishOneEpisode
    \/ Sample

SpecStep == Init /\ [][NextStep]_vars

\* the init-condition side; store_init and sample_init neither read nor write the
\* step buckets, which reach them only through finish_one_episode's returns
NextInit ==
    \/ StoreAligned
    \/ FinishOneEpisode
    \/ StoreInit
    \/ SampleInit

SpecInit == Init /\ [][NextInit]_vars

Next ==
    \/ Store
    \/ FinishOneEpisode
    \/ StoreInit
    \/ Sample
    \/ SampleInit

Spec == Init /\ [][Next]_vars

\* the perception buffer
NextPerception == PerceptionStore

SpecPerception == Init /\ [][NextPerception]_vars

\* all five methods, store being handed aligned batches only
NextAll ==
    \/ StoreAligned
    \/ FinishOneEpisode
    \/ StoreInit
    \/ Sample
    \/ SampleInit

SpecAll == Init /\ [][NextAll]_vars

\* ---- notions the claims are stated in ------------------------------------
ScenarioIds == 0..(self.num_scenario - 1)

\* W = floor(buffer_capacity / num_scenario)
WindowSize == self.buffer_capacity \div self.num_scenario

Returned(op) == call.op = op /\ ~ret.raised

\* the number of transitions scenario s holds: the entries present in all six buckets
RECURSIVE MinLen(_, _, _)
MinLen(obj, s, f) ==
    IF f = Len(Fields) THEN Len(obj[Fields[f]][s])
    ELSE Min2(Len(obj[Fields[f]][s]), MinLen(obj, s, f + 1))

Transitions(s) == MinLen(self, s, 1)

\* the positions of a tags list tagged s, ascending
TaggedPositions(tags, s) ==
    SelectSeq([i \in 1..Len(tags) |-> i], LAMBDA i : tags[i]["scenario_id"] = s)

\* the values of one batch field at the positions tagged s, in batch order
TaggedValues(list, tags, s) ==
    LET pos == TaggedPositions(tags, s) IN [j \in 1..Len(pos) |-> list[pos[j]]]

\* the values of extra key at the positions tagged s that carry the key
TaggedExtras(tags, s, key) ==
    LET pos == SelectSeq(TaggedPositions(tags, s), LAMBDA i : key \in DOMAIN tags[i])
    IN  [j \in 1..Len(pos) |-> tags[pos[j]][key]]

Column(d, key) == IF key \in DOMAIN d THEN d[key] ELSE <<>>

\* C1: after any sequence of store calls, the six buckets of every scenario id
\* have one length.
C1_BucketLengthsEqual ==
    \A s \in ScenarioIds : \A f \in 1..Len(Fields) :
        Len(self[Fields[f]][s]) = Len(self.buffer_rewards[s])

\* C2: a store call that returns has appended, for every scenario id and every
\* field, the values at the positions tagged with that id, in batch order, to
\* that id's bucket.
C2_DemultiplexByTag ==
    [][(call'.op = "store" /\ ~ret'.raised) =>
          \A s \in ScenarioIds : \A f \in 1..Len(Fields) :
              self'[Fields[f]][s] =
                  self[Fields[f]][s]
                      \o TaggedValues(call'.data_list[f], call'.additional_dict, s)]_vars

\* a store call returned whose two entries are tagged 1 and 0, in that order
C2_Witness ==
    /\ Returned("store")
    /\ Len(call.additional_dict) = 2
    /\ call.additional_dict[1]["scenario_id"] = 1
    /\ call.additional_dict[2]["scenario_id"] = 0
    /\ Len(self.buffer_obs[1]) = 1
    /\ Len(self.buffer_obs[0]) = 1

\* C3: a store call that returns has appended every extra key of every entry to
\* the same-named column of the bucket of the entry's tagged scenario id.
C3_ExtraKeysByTag ==
    [][(call'.op = "store" /\ ~ret'.raised) =>
          \A s \in ScenarioIds : \A key \in Keys :
              Column(self'.buffer_additional_dict[s], key) =
                  Column(self.buffer_additional_dict[s], key)
                      \o TaggedExtras(call'.additional_dict, s, key)]_vars

\* the buckets a returned batch field is drawn from
BucketOf(field) ==
    CASE field = "state"   -> self.buffer_obs
      [] field = "n_state" -> self.buffer_next_obs
      [] field = "reward"  -> self.buffer_rewards
      [] field = "done"    -> self.buffer_dones
      [] field = "action"  -> IF self.mode = "train_agent" THEN self.buffer_ego_actions
                              ELSE self.buffer_scenario_actions

SentinelFields == {"action", "state", "n_state", "reward"}
BatchFields    == SentinelFields \cup {"done"}

PoolNonEmpty == WindowSize >= 1 /\ \E s \in ScenarioIds : Transitions(s) >= 1

\* C5: with a non-empty pool, sample returns batch_size rows in every field.
C5_ExactlyBatchSize ==
    (call.op = "sample" /\ PoolNonEmpty) =>
        /\ ~ret.raised
        /\ \A field \in BatchFields : Len(ret.value[field]) = call.batch_size

\* row r of the returned batch is transition k of scenario s in mode m
RowIs(batch, r, s, k, m) ==
    /\ batch.action[r] = (IF m = "train_agent" THEN self.buffer_ego_actions[s][k]
                          ELSE self.buffer_scenario_actions[s][k])
    /\ batch.state[r]   = self.buffer_obs[s][k]
    /\ batch.n_state[r] = self.buffer_next_obs[s][k]
    /\ batch.reward[r]  = self.buffer_rewards[s][k]
    /\ batch.done[r]    = self.buffer_dones[s][k]

\* C6: every row of a returned batch is, in all five fields, one stored
\* transition.
C6_RowAligned ==
    Returned("sample") =>
        \A r \in 1..call.batch_size :
            \E s \in ScenarioIds : \E k \in 1..Transitions(s) :
                RowIs(ret.value, r, s, k, self.mode)

OtherMode(m) == IF m = "train_agent" THEN "eval" ELSE "train_agent"

\* the stored transition whose obs is the state of row r carries action a in field bucket
ActionOfSampled(batch, r, bucket) ==
    \E s \in ScenarioIds : \E k \in 1..Transitions(s) :
        /\ self.buffer_obs[s][k] = batch.state[r]
        /\ bucket[s][k] = batch.action[r]

ActionBucket(m) ==
    IF m = "train_agent" THEN self.buffer_ego_actions ELSE self.buffer_scenario_actions

\* C7: the action of a returned batch is the ego_action of the sampled
\* transitions in mode train_agent and their scenario_action in any other mode;
\* the other mode, on the same storage and the same indices, returns the same
\* state, n_state, reward and done, and its action from the other field.
C7_ModeSwitch ==
    Returned("sample") =>
        /\ \A r \in 1..call.batch_size :
               ActionOfSampled(ret.value, r, ActionBucket(self.mode))
        /\ ~SampleRaises(OtherMode(self.mode), ret.sample_index)
        /\ LET other == SampleBatch(OtherMode(self.mode), ret.sample_index)
           IN  /\ other.state = ret.value.state
               /\ other.n_state = ret.value.n_state
               /\ other.reward = ret.value.reward
               /\ other.done = ret.value.done
               /\ \A r \in 1..call.batch_size :
                      ActionOfSampled(other, r, ActionBucket(OtherMode(self.mode)))

\* the sum of list[lo..hi] (positions, inclusive)
RECURSIVE SumRange(_, _, _)
SumRange(list, lo, hi) == IF lo > hi THEN 0 ELSE list[hi] + SumRange(list, lo, hi - 1)

\* the positions of scenario s at which done is true
DonePositions(obj, s) == {k \in 1..Len(obj.buffer_dones[s]) : obj.buffer_dones[s][k]}

MaxOf(S) == CHOOSE x \in S : \A y \in S : y <= x

\* the reward sum of the last completed episode of scenario s: from the position
\* after the last done but one (or from the first position) to the last done
EpisodeReturn(obj, s) ==
    LET D     == DonePositions(obj, s)
        last  == MaxOf(D)
        first == IF Cardinality(D) > 1 THEN MaxOf(D \ {last}) + 1 ELSE 1
    IN  SumRange(obj.buffer_rewards[s], first, last)

\* C8: a finish_one_episode call that returns has appended, for each scenario id
\* in ascending order, the reward sum of that id's last completed episode.
C8_EpisodeReturn ==
    [][(call'.op = "finish_one_episode" /\ ~ret'.raised) =>
          self'.buffer_episode_reward =
              self.buffer_episode_reward
                  \o [i \in 1..self.num_scenario |-> EpisodeReturn(self, i - 1)]]_vars

\* finish_one_episode returned for a scenario whose last episode starts after an
\* earlier done
C8_Witness ==
    /\ Returned("finish_one_episode")
    /\ \E s \in ScenarioIds : Cardinality(DonePositions(self, s)) > 1
    /\ self.buffer_episode_reward # <<>>

\* C9: there are never more EpisodeRecords than InitRecords, whether an
\* InitRecord is one store_init call or one row of a batched init_action.
C9_EpisodesAtMostInits ==
    \/ Len(self.buffer_episode_reward) <= Len(self.buffer_init_action)
    \/ Len(self.buffer_episode_reward) <= self.init_buffer_len

\* a returned init_action row <<"ia", j, i>> is row i of the j-th store_init call
CallOf(row) == row[2]

\* its number among all rows stored, in append order
RECURSIVE RowsBefore(_)
RowsBefore(j) ==
    IF j <= 1 THEN 0 ELSE Len(self.buffer_init_action[j - 1]) + RowsBefore(j - 1)

RowNumber(row) == RowsBefore(row[2]) + row[3]

\* record number j of total is one of the newest buffer_capacity, and reward is
\* the EpisodeRecord with its number
PairedNewest(j, total, reward) ==
    /\ j > total - self.buffer_capacity
    /\ j <= Len(self.buffer_episode_reward)
    /\ reward = self.buffer_episode_reward[j]

\* C10: every row of a returned sample_init batch belongs to one of the newest
\* buffer_capacity InitRecords and comes with the EpisodeRecord paired with that
\* InitRecord by append order (an InitRecord being one store_init call, or else
\* one row of a batched init_action).
C10_InitPaired ==
    Returned("sample_init") =>
        \A r \in 1..call.batch_size :
            LET row    == ret.value["init_action"][r]
                reward == ret.value["episode_reward"][r]
            IN  \/ PairedNewest(CallOf(row), Len(self.buffer_init_action), reward)
                \/ PairedNewest(RowNumber(row), self.init_buffer_len, reward)

\* ---- what holds of sample while every store call has been all-or-nothing ---
\* With the six buckets of every scenario aligned, sample returns batch_size
\* aligned rows whose action comes from the field the mode names.
SampleSoundWhenAligned ==
    C1_BucketLengthsEqual => (C5_ExactlyBatchSize /\ C6_RowAligned /\ C7_ModeSwitch)

\* C11: whenever at least one InitRecord has been stored, sample_init returns,
\* and with batch_size rows of init_action and of episode_reward.
C11_SampleInitSucceeds ==
    (call.op = "sample_init" /\ Len(self.buffer_init_action) > 0) =>
        /\ ~ret.raised
        /\ Len(ret.value["init_action"]) = call.batch_size
        /\ Len(ret.value["episode_reward"]) = call.batch_size

IsPrefix(a, b) == Len(a) <= Len(b) /\ SubSeq(b, 1, Len(a)) = a

\* C12: across every call, each of the six buckets of every scenario id keeps
\* what it held as a prefix of what it holds afterwards: nothing is removed or
\* reordered, also beyond buffer_capacity stored transitions.
C12_AppendOnly ==
    [][\A s \in ScenarioIds : \A f \in 1..Len(Fields) :
          IsPrefix(self[Fields[f]][s], self'[Fields[f]][s])]_vars

\* a scenario holds more transitions than buffer_capacity, and a sample has been
\* drawn from it
C12_Witness ==
    /\ Returned("sample")
    /\ \E s \in ScenarioIds : Transitions(s) > self.buffer_capacity

\* the six fields and the tags list of a store call are not all of one length
Unaligned(c) == \E f \in 1..Len(Fields) : Len(c.data_list[f]) # Len(c.additional_dict)

\* C13: a store call whose fields and tags list are not all of one length fails.
C13_ShapeMismatchFails ==
    (call.op = "store" /\ Unaligned(call)) => ret.raised

\* C14: a store call that fails leaves every bucket, every extra column and
\* buffer_len as they were before the call.
C14_StoreAllOrNothing ==
    [][(call'.op = "store" /\ ret'.raised) => self' = self]_vars

\* C15: a finish_one_episode call made while some scenario id has no done=true
\* transition fails.
C15_MissingBoundaryFails ==
    [][(call'.op = "finish_one_episode" /\ \E s \in ScenarioIds : DonePositions(self, s) = {})
          => ret'.raised]_vars

\* finish_one_episode failed with a done recorded for scenario 0 and none for
\* scenario 1
C15_Witness ==
    /\ call.op = "finish_one_episode"
    /\ ret.raised
    /\ self.num_scenario = 2
    /\ DonePositions(self, 0) # {}
    /\ DonePositions(self, 1) = {}

\* C16: a finish_one_episode call that fails has appended no EpisodeRecord.
C16_FinishAllOrNothing ==
    [][(call'.op = "finish_one_episode" /\ ret'.raised)
          => self'.buffer_episode_reward = self.buffer_episode_reward]_vars

\* C17: a sample call made while the pooled window is empty (no scenario holds a
\* transition, or W = 0) fails and returns no batch.
C17_EmptyPoolFails ==
    (call.op = "sample" /\ ~PoolNonEmpty) => (ret.raised /\ ret.value = None)

\* sample failed with W = 0 while a scenario holds a transition
C17_Witness ==
    /\ call.op = "sample"
    /\ ret.raised
    /\ WindowSize = 0
    /\ \E s \in ScenarioIds : Transitions(s) >= 1

\* C18: a ReplayBuffer_Perception.store call handed a number of lists other
\* than 4 fails and leaves every perception bucket and buffer_len unchanged.
C18_ArityCheck ==
    [][(call'.op = "Perception.store" /\ Len(call'.data_list) # 4)
          => (ret'.raised /\ perception' = perception)]_vars

\* a call handed 3 lists failed on a buffer that holds an entry
C18_Witness ==
    /\ call.op = "Perception.store"
    /\ Len(call.data_list) = 3
    /\ ret.raised
    /\ \E s \in 0..(perception.num_scenario - 1) : Len(perception.buffer_loss[s]) >= 1

\* the newest min(len, W) transitions of scenario s, oldest first, each named by
\* its scenario id and its position in the trajectory
NewestOf(s) ==
    LET len  == Transitions(s)
        take == Min2(len, WindowSize)
    IN  [j \in 1..take |-> <<s, len - take + j>>]

\* their concatenation in increasing scenario id order, from scenario s on
RECURSIVE PoolFrom(_)
PoolFrom(s) == IF s >= self.num_scenario THEN <<>> ELSE NewestOf(s) \o PoolFrom(s + 1)

\* C20: the pool sample draws from is the concatenation, in increasing scenario
\* id order, of each scenario id's newest min(len, W) transitions in stored
\* order: every drawn index lies inside that concatenation and the row returned
\* for it is the transition at that place.
C20_PoolComposition ==
    Returned("sample") =>
        \A r \in 1..call.batch_size :
            /\ ret.sample_index[r] < Len(PoolFrom(0))
            /\ LET t == PoolFrom(0)[ret.sample_index[r] + 1]
               IN  RowIs(ret.value, r, t[1], t[2], self.mode)

\* with the six buckets of every scenario aligned, the pool is that concatenation
PoolSoundWhenAligned == C1_BucketLengthsEqual => C20_PoolComposition

\* a sample drew the last place of a pool of two scenarios, one holding more
\* than W transitions and the other none
C20_Witness ==
    /\ Returned("sample")
    /\ self.num_scenario = 2
    /\ WindowSize = 1
    /\ \E s \in ScenarioIds : Transitions(s) = 2 /\ Transitions(1 - s) = 0
    /\ \E r \in 1..call.batch_size : ret.sample_index[r] = Len(PoolFrom(0)) - 1

PerceptionIds == 0..(perception.num_scenario - 1)

PerceptionBuckets == {"buffer_bbox_label", "buffer_predictions", "buffer_scenario_actions",
                      "buffer_obs", "buffer_loss"}

\* what entry i of a batch contributes to a perception bucket
PerceptionValue(data_list, i, bucket) ==
    CASE bucket = "buffer_bbox_label"       -> data_list[4][i]["bbox_label"]
      [] bucket = "buffer_predictions"      -> data_list[1][i]["od_result"]
      [] bucket = "buffer_scenario_actions" -> data_list[2][i]["attack"]
      [] bucket = "buffer_obs"              -> data_list[3][i]["img"]
      [] bucket = "buffer_loss"             -> data_list[4][i]["iou_loss"]

\* the contributions of the entries whose infos is tagged s, in batch order
PerceptionTagged(data_list, s, bucket) ==
    LET pos == TaggedPositions(data_list[4], s)
    IN  [j \in 1..Len(pos) |-> PerceptionValue(data_list, pos[j], bucket)]

\* C21: a ReplayBuffer_Perception.store call that returns has appended, for
\* every scenario id, to each of the five buckets the values of the entries
\* whose infos names that id, in batch order: buckets of equal length stay of
\* equal length, and every entry sits in the bucket of its infos' scenario_id.
C21_PerceptionDemultiplex ==
    [][(call'.op = "Perception.store" /\ ~ret'.raised) =>
          \A s \in PerceptionIds :
              /\ \A bucket \in PerceptionBuckets :
                     perception'[bucket][s] =
                         perception[bucket][s]
                             \o PerceptionTagged(call'.data_list, s, bucket)
              /\ (\A bucket \in PerceptionBuckets :
                      Len(perception[bucket][s]) = Len(perception.buffer_loss[s]))
                     => \A bucket \in PerceptionBuckets :
                            Len(perception'[bucket][s]) = Len(perception'.buffer_loss[s])]_vars

\* a call returned whose two entries are tagged 1 and 0, in that order
C21_Witness ==
    /\ call.op = "Perception.store"
    /\ ~ret.raised
    /\ Len(call.data_list) = 4
    /\ Len(call.data_list[4]) = 2
    /\ call.data_list[4][1]["scenario_id"] = 1
    /\ call.data_list[4][2]["scenario_id"] = 0
    /\ Len(perception.buffer_loss[0]) = 1
    /\ Len(perception.buffer_loss[1]) = 1

\* C22: a sample or sample_init call, returning or failing, leaves every bucket,
\* every extra column, the init records, the episode records and the length
\* counters as they were.
C22_SamplingReadOnly ==
    [][(call'.op \in {"sample", "sample_init"}) => self' = self]_vars

\* sample_init returned from a window that starts after the oldest InitRecord,
\* while a scenario holds more transitions than W
C22_Witness ==
    /\ Returned("sample_init")
    /\ Len(self.buffer_init_action) > self.buffer_capacity
    /\ \E s \in ScenarioIds : Transitions(s) > WindowSize

====
